---------------------------- MODULE Spec2Model ----------------------------
(***************************************************************************)
(* pi-blocker-c: a filtering DNS forwarding proxy (src/main.c, src/dns.c,  *)
(* src/dns.h).                                                             *)
(*                                                                         *)
(* Bytes are naturals 0..255.  C strings are sequences of bytes without    *)
(* the terminating NUL.  A packet is the sequence of its bytes; offset i   *)
(* of a C buffer is element i+1 of the sequence.                           *)
(***************************************************************************)
EXTENDS Integers, Sequences, FiniteSets, TLC

VARIABLES
    g_blocklist,  \* the sorted table (g_blocklist, g_blocklist_size)
    pc,           \* main: "recv" (in recvfrom, main.c:128) or "wait" (in recv_with_timeout, main.c:179)
    buffer,       \* main's packet buffer, DNS_BUFFER_SIZE bytes
    query_size,   \* main's query_size
    client_addr,  \* main's client_addr
    cur,          \* id of the datagram main is processing (0: none)
    listen_q,     \* datagrams queued at client_socket, not yet received
    up_q,         \* datagrams queued at main's upstream_socket
    resolver,     \* queries the upstream resolver holds and may still answer
    to_client,    \* datagrams sent on client_socket, in order
    to_upstream,  \* datagrams sent to the upstream resolver, in order
    qlog,         \* per datagram: sender, bytes, and what was done with it
    crashed,      \* the process has been killed
    tasks,        \* worker threads: task id -> dns_task_t and thread position
    fn_in,        \* input of the function under test (pure-function specifications)
    fn_out        \* its result

fnvars == <<fn_in, fn_out>>
netvars == <<listen_q, up_q, resolver, to_client, to_upstream, qlog>>
mainvars == <<pc, buffer, query_size, client_addr, cur>>
vars == <<g_blocklist, mainvars, netvars, crashed, tasks, fnvars>>

(***************************************************************************)
(* Program constants (src/dns.h).                                          *)
(***************************************************************************)
DNS_BUFFER_SIZE == 512
DNS_NAME_SIZE == 256
MAX_LOOP_COUNT == 100
JUMP_HEX_VALUE == 192
FIRST_OFFSET_HEX_VALUE == 63
DNS_HDR_SIZE == 12
UPSTREAM_BUFFER_SIZE == 65536

(***************************************************************************)
(* Characters.                                                             *)
(***************************************************************************)
ASCII == [c \in {".", "a", "b", "c", "A", "B", "C"} |->
            CASE c = "." -> 46 [] c = "a" -> 97 [] c = "b" -> 98 [] c = "c" -> 99
              [] c = "A" -> 65 [] c = "B" -> 66 [] c = "C" -> 67]

Str(t) == [i \in 1..Len(t) |-> ASCII[t[i]]]

Rep(x, n) == [i \in 1..n |-> x]

Max(a, b) == IF a >= b THEN a ELSE b
Min(a, b) == IF a <= b THEN a ELSE b
SetMin(S) == CHOOSE x \in S : \A y \in S : x <= y

RECURSIVE Concat(_)
Concat(ss) ==
    IF Len(ss) = 0 THEN <<>>
    ELSE IF Len(ss) = 1 THEN ss[1]
    ELSE LET h == Len(ss) \div 2
         IN  Concat(SubSeq(ss, 1, h)) \o Concat(SubSeq(ss, h + 1, Len(ss)))

RECURSIVE SeqsUpTo(_, _)
SeqsUpTo(S, n) ==
    IF n = 0 THEN {<<>>}
    ELSE LET shorter == SeqsUpTo(S, n - 1)
         IN  shorter \cup {Append(s, x) : s \in {t \in shorter : Len(t) = n - 1}, x \in S}

(***************************************************************************)
(* Blocklist engine (src/dns.c).                                           *)
(***************************************************************************)

\* strcmp: unsigned byte-wise comparison, sign of the first difference.
strcmp(sa, sb) ==
    LET n == Min(Len(sa), Len(sb))
        diff == {i \in 1..n : sa[i] # sb[i]}
    IN  IF diff # {}
        THEN LET k == SetMin(diff) IN IF sa[k] < sb[k] THEN -1 ELSE 1
        ELSE IF Len(sa) < Len(sb) THEN -1
        ELSE IF Len(sa) > Len(sb) THEN 1
        ELSE 0

compare_strings(a, b) == strcmp(a, b)

\* bsearch(3): halving search over base[l..u-1], 0-based bounds l <= u.
RECURSIVE bsearch(_, _, _, _)
bsearch(key, base, l, u) ==
    IF l >= u THEN FALSE
    ELSE LET idx == (l + u) \div 2
             cmp == compare_strings(key, base[idx + 1])
         IN  IF cmp < 0 THEN bsearch(key, base, l, idx)
             ELSE IF cmp > 0 THEN bsearch(key, base, idx + 1, u)
             ELSE TRUE

check_domain(table, domain) ==
    IF Len(table) = 0 THEN FALSE
    ELSE bsearch(domain, table, 0, Len(table))

\* strchr(s + from, '.'): 1-based index of the first '.' at or after
\* position from, 0 for NULL.
strchr_dot(s, from) ==
    LET dots == {i \in from..Len(s) : s[i] = 46}
    IN  IF dots = {} THEN 0 ELSE SetMin(dots)

Suffix(s, from) == SubSeq(s, from, Len(s))

\* The while loop of is_blocked; dot is the position of the current '.'.
RECURSIVE walk_up(_, _, _)
walk_up(table, host, dot) ==
    IF dot = 0 THEN FALSE
    ELSE LET parent == dot + 1
             next == strchr_dot(host, parent)
         IN  IF next = 0 THEN FALSE
             ELSE IF check_domain(table, Suffix(host, parent)) THEN TRUE
             ELSE walk_up(table, host, next)

\* Mutant: the walk also tests the last, dot-free label.
RECURSIVE walk_up_tld(_, _, _)
walk_up_tld(table, host, dot) ==
    IF dot = 0 THEN FALSE
    ELSE LET parent == dot + 1
             next == strchr_dot(host, parent)
         IN  IF check_domain(table, Suffix(host, parent)) THEN TRUE
             ELSE walk_up_tld(table, host, next)

is_blocked_tld(table, host) ==
    check_domain(table, host) \/ walk_up_tld(table, host, strchr_dot(host, 1))

is_blocked(table, host) ==
    IF check_domain(table, host) THEN TRUE
    ELSE walk_up(table, host, strchr_dot(host, 1))

(***************************************************************************)
(* Name decoder (src/dns.c, read_name).                                    *)
(*                                                                         *)
(* buf is the memory at `buffer`; a read at an offset past the end of buf  *)
(* is a read outside the object, and yields the byte `beyond` (whatever    *)
(* the adjacent memory holds).  reader is kept as an offset from buffer.   *)
(***************************************************************************)
Mem(buf, beyond, i) == IF i < Len(buf) THEN buf[i + 1] ELSE beyond

\* The C string held in a buffer: the bytes before the first NUL.
CStr(s) ==
    LET nuls == {i \in 1..Len(s) : s[i] = 0}
    IN  IF nuls = {} THEN s ELSE SubSeq(s, 1, SetMin(nuls) - 1)

\* (*reader & JUMP_HEX_VALUE) == JUMP_HEX_VALUE : both top bits set.
is_jump(b) == b >= JUMP_HEX_VALUE

\* ((*reader & FIRST_OFFSET_HEX_VALUE) << 8) | *(reader + 1)
jump_offset(b0, b1) == (b0 % (FIRST_OFFSET_HEX_VALUE + 1)) * 256 + b1

\* Mutant: the step bound is tested with <= instead of <.
loop_guard_off_by_one(b, count, loop_count) ==
    b # 0 /\ count < DNS_NAME_SIZE /\ loop_count <= MAX_LOOP_COUNT

\* The condition of the while loop.
loop_guard(b, count, loop_count) ==
    b # 0 /\ count < DNS_NAME_SIZE /\ loop_count < MAX_LOOP_COUNT

\* Mutant: the overflow test forgets the bytes already assembled.
name_too_long_no_offset(name_offset, segment_len) ==
    segment_len + 1 >= DNS_NAME_SIZE

\* "Prevent buffer overflow"
name_too_long(name_offset, segment_len) ==
    name_offset + segment_len + 1 >= DNS_NAME_SIZE

\* Mutant: the bytes read after a jump are counted too.
count_label_always(count, jumped, segment_len) == count + segment_len + 1

\* "Increment count only if we haven't jumped"
count_label(count, jumped, segment_len) ==
    IF jumped = 0 THEN count + segment_len + 1 ELSE count

\* State of the loop: reader, count, name_offset, jumped, loop_count, the
\* bytes written to name so far, the highest offsets read and written, and
\* how the loop was left ("run": it has not been left).
read_name_start(reader) ==
    [reader |-> reader, count |-> 0, name_offset |-> 0, jumped |-> 0,
     loop_count |-> 0, name |-> <<>>, max_read |-> -1, max_write |-> -1,
     exit |-> "run", bad_len |-> 0]

\* One evaluation of the loop condition and, when it holds, one pass of
\* the loop body.
read_name_step(buf, beyond, st0) ==
    LET b == Mem(buf, beyond, st0.reader)
        st == [st0 EXCEPT !.max_read = Max(@, st0.reader)]
    IN  IF st0.exit # "run" THEN st0
        ELSE IF ~loop_guard(b, st.count, st.loop_count)
        THEN [st EXCEPT !.exit = IF b = 0 THEN "end"
                                 ELSE IF st.count >= DNS_NAME_SIZE THEN "count"
                                 ELSE "loop"]
        ELSE IF is_jump(b)
        THEN [st EXCEPT !.reader = jump_offset(b, Mem(buf, beyond, st.reader + 1)),
                        !.count = IF st.jumped = 0 THEN @ + 2 ELSE @,
                        !.jumped = 1,
                        !.loop_count = @ + 1,
                        !.max_read = Max(@, st.reader + 1)]
        ELSE IF name_too_long(st.name_offset, b)
        THEN [st EXCEPT !.exit = "overflow", !.bad_len = b]
        ELSE [st EXCEPT !.name = @ \o [i \in 1..b |-> Mem(buf, beyond, st.reader + i)]
                                   \o <<46>>,
                        !.name_offset = @ + b + 1,
                        !.reader = @ + b + 1,
                        !.count = count_label(@, st.jumped, b),
                        !.loop_count = @ + 1,
                        !.max_read = Max(@, st.reader + b),
                        !.max_write = st.name_offset + b]

\* n steps of the loop, by halving.
RECURSIVE read_name_steps(_, _, _, _)
read_name_steps(buf, beyond, st, n) ==
    IF n = 1 THEN read_name_step(buf, beyond, st)
    ELSE LET half == read_name_steps(buf, beyond, st, n \div 2)
         IN  IF half.exit # "run" THEN half
             ELSE read_name_steps(buf, beyond, half, n - n \div 2)

\* The loop, run until it is left.
RECURSIVE read_name_loop(_, _, _, _)
read_name_loop(buf, beyond, st, n) ==
    LET after == read_name_steps(buf, beyond, st, n)
    IN  IF after.exit # "run" THEN after ELSE read_name_loop(buf, beyond, after, 2 * n)

\* return NULL after free(name)
read_name_null(st, why) ==
    [null |-> TRUE, name |-> <<>>, count |-> st.count, exit |-> why,
     loop_count |-> st.loop_count, name_offset |-> st.name_offset,
     jumped |-> st.jumped, bad_len |-> st.bad_len,
     max_read |-> st.max_read, max_write |-> st.max_write, buf_len |-> 0]

\* Mutant: the trailing dot is kept.
read_name_finish_keep_dot(st) ==
    [null |-> FALSE, name |-> CStr(st.name),
     count |-> IF st.jumped = 0 THEN st.count + 1 ELSE st.count,
     exit |-> st.exit, loop_count |-> st.loop_count,
     name_offset |-> st.name_offset, jumped |-> st.jumped, bad_len |-> 0,
     max_read |-> st.max_read, max_write |-> Max(st.max_write, st.name_offset),
     buf_len |-> Len(st.name)]

\* The code after the loop: strip the trailing dot, count the final zero.
read_name_finish(st) ==
    LET nul_at == IF st.name_offset > 0 THEN st.name_offset - 1 ELSE 0
        held == SubSeq(st.name, 1, nul_at)
    IN  [null |-> FALSE, name |-> CStr(held),
         count |-> IF st.jumped = 0 THEN st.count + 1 ELSE st.count,
         exit |-> st.exit, loop_count |-> st.loop_count,
         name_offset |-> st.name_offset, jumped |-> st.jumped, bad_len |-> 0,
         max_read |-> st.max_read, max_write |-> Max(st.max_write, nul_at),
         buf_len |-> Len(held)]

\* read_name(reader, buffer, &count); calloc_ok is whether calloc succeeded.
read_name(buf, beyond, reader, calloc_ok) ==
    IF ~calloc_ok THEN read_name_null(read_name_start(reader), "nomem")
    ELSE LET st == read_name_loop(buf, beyond, read_name_start(reader), 8)
         IN  IF st.exit = "overflow" THEN read_name_null(st, "overflow")
             ELSE read_name_finish(st)

(***************************************************************************)
(* DNS header flags (src/dns.h) and the REFUSED response.                  *)
(***************************************************************************)
DNS_FLAG_QR == 32768
DNS_FLAG_RCODE == 15
RCODE_REFUSED == 5

\* Bitwise or of naturals below 2^w.
RECURSIVE BitOr(_, _, _)
BitOr(x, y, w) ==
    IF w = 0 THEN 0
    ELSE (IF x % 2 = 1 \/ y % 2 = 1 THEN 1 ELSE 0) + 2 * BitOr(x \div 2, y \div 2, w - 1)

\* A uint16_t field of struct dns_hdr as the (little-endian) host loads and
\* stores it: the byte at the lower address is the low byte.
load16(buf, off) == buf[off + 1] + 256 * buf[off + 2]
store16(buf, off, v) == [buf EXCEPT ![off + 1] = v % 256, ![off + 2] = v \div 256]

\* ntohs / htons: swap the two bytes.
ntohs(v) == (v % 256) * 256 + v \div 256
htons(v) == (v % 256) * 256 + v \div 256

\* Mutant: the response code is written over the whole low byte.
refused_flags_low_byte(flags) ==
    BitOr(flags - (flags % 256), DNS_FLAG_QR + RCODE_REFUSED, 16)

\* ntohs(header->flags) | DNS_FLAG_QR | 0x0005
refused_flags(flags) == BitOr(BitOr(flags, DNS_FLAG_QR, 16), RCODE_REFUSED, 16)

\* header->flags = htons(ntohs(header->flags) | DNS_FLAG_QR | 0x0005),
\* header being the packet buffer itself; flags is the field at offset 2.
refuse_in_place(buf) == store16(buf, 2, htons(refused_flags(ntohs(load16(buf, 2)))))

\* The flags field of a datagram on the wire (big-endian), and its fields.
WireFlags(d) == d[3] * 256 + d[4]
QR(d) == WireFlags(d) \div DNS_FLAG_QR
RCODE(d) == WireFlags(d) % (DNS_FLAG_RCODE + 1)

\* tolower over the decoded name (ASCII 'A'..'Z').
tolower(c) == IF c >= 65 /\ c <= 90 THEN c + 32 ELSE c

\* Mutant: the name is classified as decoded.
lower_name_none(name) == name

lower_name(name) == [i \in 1..Len(name) |-> tolower(name[i])]

(***************************************************************************)
(* Packets.                                                                *)
(***************************************************************************)
Header(id, flags) == <<id \div 256, id % 256, flags \div 256, flags % 256,
                       0, 1, 0, 0, 0, 0, 0, 0>>

\* One length-prefixed label.
Label(l) == <<Len(l)>> \o l

\* The length-prefixed labels of a list, without the terminating zero.
LabelsWire(labels) == Concat([i \in 1..Len(labels) |-> Label(labels[i])])

\* The uncompressed encoding of a list of labels.
QName(labels) == LabelsWire(labels) \o <<0>>

\* A compression pointer to offset off.
Pointer(off) == <<JUMP_HEX_VALUE + off \div 256, off % 256>>

\* QTYPE A, QCLASS IN
QTail == <<0, 1, 0, 1>>

Query(id, flags, labels) == Header(id, flags) \o QName(labels) \o QTail

(***************************************************************************)
(* The environment: clients and the upstream resolver.                     *)
(***************************************************************************)
MaxQueries == 2          \* datagrams the clients send in one run

Clients == {"c1", "c2"}

\* The table loaded at startup (sorted).
BlockTable == <<Str(<<"a", ".", "b">>), Str(<<"b", ".", "c">>)>>

\* Memory next to a buffer, as an out-of-bounds read may find it.
BeyondBytes == {0, 1, JUMP_HEX_VALUE}

\* What read_name can return for a buffer: one result when every read stays
\* inside the buffer, one per content of the memory behind it otherwise.
read_name_outcomes(buf, reader, calloc_ok) ==
    LET r0 == read_name(buf, 0, reader, calloc_ok)
    IN  IF r0.max_read < Len(buf) THEN {r0}
        ELSE {read_name(buf, y, reader, calloc_ok) : y \in BeyondBytes}

\* What the stack holds in main's buffer before the first recvfrom.
InitialFill == {0, 97}

FLAG_RD == 256

\* A 63-byte label followed by a pointer back to it: the assembled name
\* outgrows the name buffer.
OversizedName == Label(Rep(97, 63)) \o Pointer(DNS_HDR_SIZE)

DispatchPackets ==
    { Query(1, FLAG_RD, <<Str(<<"c">>), Str(<<"a">>), Str(<<"b">>)>>),    \* c.a.b : blocked by a.b
      Query(2, FLAG_RD + 2, <<Str(<<"B">>), Str(<<"C">>)>>),              \* B.C, RCODE 2 : blocked by b.c
      Query(3, FLAG_RD, <<Str(<<"c">>), Str(<<"a">>)>>),                  \* c.a : allowed
      Header(5, FLAG_RD) \o Pointer(DNS_HDR_SIZE) \o QTail,               \* pointer to itself
      Header(6, FLAG_RD) \o OversizedName \o QTail,                       \* oversized name
      Header(7, FLAG_RD),                                                 \* header only
      SubSeq(Header(8, FLAG_RD), 1, DNS_HDR_SIZE - 1),                    \* one byte short
      <<>> }                                                              \* empty datagram

\* What the resolver answers to a query: the query with QR set and one
\* answer byte appended.
upstream_answer(data) ==
    IF Len(data) < 4 THEN data \o <<255>>
    ELSE [data EXCEPT ![3] = IF @ < 128 THEN @ + 128 ELSE @] \o <<255>>

\* The record kept of a datagram: who sent it and its bytes; then, as it is
\* processed, whether read_name and is_blocked were called, what read_name
\* returned and the highest offset it read, how the upstream wait ended,
\* the resources acquired, used and released in the order of the code, and
\* the outcome.
NewLog(c, p) ==
    [from |-> c, data |-> p, decoded |-> FALSE, null_name |-> FALSE,
     classified |-> FALSE, outcome |-> "queued", name |-> <<>>, exit |-> "none",
     max_read |-> -1, wait |-> "none", res |-> <<>>]

\* A client sends datagram p to the listening socket.
ClientSend(c, p) ==
    /\ ~crashed
    /\ Len(qlog) < MaxQueries
    /\ qlog' = Append(qlog, NewLog(c, p))
    /\ listen_q' = Append(listen_q, [id |-> Len(qlog) + 1, from |-> c, data |-> p])
    /\ UNCHANGED <<g_blocklist, mainvars, up_q, resolver, to_client, to_upstream,
                   crashed, tasks, fnvars>>

\* The resolver answers a query it holds.  The answer is queued at the
\* socket the query came from: main's upstream_socket (sock 0), or the
\* socket of worker q.sock, where it is discarded once that socket is
\* closed.
UpstreamReply(q) ==
    /\ ~crashed
    /\ q \in resolver
    /\ resolver' = resolver \ {q}
    /\ IF q.sock = 0
       THEN /\ up_q' = Append(up_q, [data |-> upstream_answer(q.data), re |-> q.id])
            /\ UNCHANGED tasks
       ELSE /\ tasks' = IF tasks[q.sock].sock = "open"
                        THEN [tasks EXCEPT ![q.sock].sock_q =
                                 Append(@, [data |-> upstream_answer(q.data), re |-> q.id])]
                        ELSE tasks
            /\ UNCHANGED up_q
    /\ UNCHANGED <<g_blocklist, mainvars, listen_q, to_client, to_upstream, qlog,
                   crashed, fnvars>>

(***************************************************************************)
(* recv_with_timeout (src/main.c, src/dns.c: the same code twice).         *)
(*                                                                         *)
(* q is the queue of datagrams at the socket, activity what poll returned, *)
(* recv_ok whether recvfrom then succeeded.  The result is the value       *)
(* returned, the bytes stored in the caller's buffer, the queue left at    *)
(* the socket and the query the received datagram answers (0: none).       *)
(***************************************************************************)

\* What poll(fds, 1, timeout_ms) can return: 0 after timeout_ms without
\* data, a positive count when a datagram is queued, -1 on error.
poll_outcomes(q) == {-1} \cup (IF q = <<>> THEN {0} ELSE {1})

\* recvfrom(sockfd, buf, len, ...): the first queued datagram, cut to len.
recvfrom(q, len, recv_ok) ==
    IF ~recv_ok THEN [ret |-> -1, buf |-> <<>>, queue |-> q, re |-> 0]
    ELSE LET n == Min(Len(Head(q).data), len)
         IN  [ret |-> n, buf |-> SubSeq(Head(q).data, 1, n), queue |-> Tail(q),
              re |-> Head(q).re]

recv_with_timeout(q, len, activity, recv_ok) ==
    IF activity = 0 THEN [ret |-> 0, buf |-> <<>>, queue |-> q, re |-> 0]
    ELSE IF activity < 0 THEN [ret |-> -1, buf |-> <<>>, queue |-> q, re |-> 0]
    ELSE recvfrom(q, len, recv_ok)

\* How a wait ended, as the environment knows it.
wait_outcome(activity, recv_ok) ==
    IF activity = 0 THEN "timeout"
    ELSE IF activity < 0 \/ ~recv_ok THEN "error"
    ELSE "data"

\* Mutant: an empty result is relayed too.
has_reply_nonneg(response_size) == response_size >= 0

\* if (response_size > 0)
has_reply(response_size) == response_size > 0

\* sendto(client_socket, upstream_buffer, response_size, ...)
relay_bytes(buf, response_size) == SubSeq(buf, 1, response_size)

\* Mutant: the whole buffer is sent instead of the bytes received.
forward_bytes_whole_buffer(buf, size) == buf

\* sendto(upstream_socket, buffer, query_size, ...)
forward_bytes(buf, size) == SubSeq(buf, 1, size)

\* What a wait that ended with return value ret is recorded as.
wait_log(ret, how) ==
    IF has_reply(ret) THEN "relayed"
    ELSE IF how = "error" THEN "upstream_error"
    ELSE "timeout"

(***************************************************************************)
(* main (src/main.c): the serial receive loop.                             *)
(***************************************************************************)

\* recvfrom into buf: the datagram's bytes (at most the buffer's size)
\* replace the start of the buffer, the rest keeps what it held.
recv_into(buf, data) ==
    IF Len(data) >= Len(buf) THEN SubSeq(data, 1, Len(buf))
    ELSE data \o SubSeq(buf, Len(data) + 1, Len(buf))

recv_size(buf, data) == IF Len(data) <= Len(buf) THEN Len(data) ELSE Len(buf)

\* Mutant: only an empty or failed receive is dropped.
is_junk_only_empty(size) == size <= 0

\* "Drop junk packet"
is_junk(size) == size < DNS_HDR_SIZE

SetLog(id, dec, nul, cls, out) ==
    [qlog EXCEPT ![id] = [@ EXCEPT !.decoded = dec, !.null_name = nul,
                                   !.classified = cls, !.outcome = out]]

\* Record what read_name returned for datagram id.
LogRead(log, id, r, domain_name) ==
    [log EXCEPT ![id] = [@ EXCEPT !.name = domain_name, !.exit = r.exit,
                                  !.max_read = r.max_read]]

\* Record resource events of datagram id, in the order of the code.
LogRes(log, id, events) == [log EXCEPT ![id].res = @ \o events]

\* read_name's own allocation: calloc, and free before it returns NULL.
read_name_res(r) ==
    IF r.exit = "nomem" THEN <<>>
    ELSE IF r.null THEN <<"alloc_name", "free_name">>
    ELSE <<"alloc_name">>

\* One pass of the loop from recvfrom (main.c:128) to the next blocking
\* call: either recvfrom again, or the upstream wait.
MainRecv ==
    /\ ~crashed
    /\ pc = "recv"
    /\ listen_q # <<>>
    /\ \E d \in {Head(listen_q)} :
       \E buf1 \in {recv_into(buffer, d.data)} :
       \E size \in {recv_size(buffer, d.data)} :
           /\ listen_q' = Tail(listen_q)
           /\ query_size' = size
           /\ client_addr' = d.from
           /\ cur' = d.id
           /\ IF is_junk(size)
              THEN /\ buffer' = buf1
                   /\ pc' = "recv"
                   /\ qlog' = SetLog(d.id, FALSE, FALSE, FALSE, "dropped_short")
                   /\ UNCHANGED <<to_client, to_upstream, resolver>>
              ELSE \E calloc_ok \in BOOLEAN :
                   \E r \in read_name_outcomes(buf1, DNS_HDR_SIZE, calloc_ok) :
                   \E domain_name \in {lower_name(r.name)} :
                       IF r.null
                       THEN /\ buffer' = buf1
                            /\ pc' = "recv"
                            /\ qlog' = LogRes(LogRead(
                                   SetLog(d.id, TRUE, TRUE, FALSE, "dropped_decode"),
                                   d.id, r, domain_name), d.id, read_name_res(r))
                            /\ UNCHANGED <<to_client, to_upstream, resolver>>
                       ELSE IF is_blocked(g_blocklist, domain_name)
                       THEN /\ buffer' = refuse_in_place(buf1)
                            /\ to_client' = Append(to_client,
                                   [to |-> d.from, data |-> SubSeq(buffer', 1, size),
                                    kind |-> "refused", q |-> d.id, re |-> 0])
                            /\ pc' = "recv"
                            /\ qlog' = LogRes(LogRead(
                                   SetLog(d.id, TRUE, FALSE, TRUE, "refused"),
                                   d.id, r, domain_name), d.id,
                                   read_name_res(r) \o <<"use_name", "free_name">>)
                            /\ UNCHANGED <<to_upstream, resolver>>
                       ELSE \E sent \in {forward_bytes(buf1, size)} :
                            /\ buffer' = buf1
                            /\ to_upstream' = Append(to_upstream,
                                   [data |-> sent, q |-> d.id, sock |-> 0])
                            /\ resolver' = resolver \cup
                                   {[id |-> d.id, data |-> sent, sock |-> 0]}
                            /\ pc' = "wait"
                            /\ qlog' = LogRes(LogRead(
                                   SetLog(d.id, TRUE, FALSE, TRUE, "forwarded"),
                                   d.id, r, domain_name), d.id,
                                   read_name_res(r) \o <<"use_name">>)
                            /\ UNCHANGED to_client
    /\ UNCHANGED <<g_blocklist, up_q, crashed, tasks, fnvars>>

\* recv_with_timeout(upstream_socket, ..., 2000) returns; the loop relays
\* the reply or not, frees the name and goes back to recvfrom
\* (main.c:179-193).
MainWait ==
    /\ ~crashed
    /\ pc = "wait"
    /\ \E activity \in poll_outcomes(up_q) :
       \E recv_ok \in BOOLEAN :
       \E rv \in {recv_with_timeout(up_q, UPSTREAM_BUFFER_SIZE, activity, recv_ok)} :
          /\ up_q' = rv.queue
          /\ to_client' =
                IF has_reply(rv.ret)
                THEN Append(to_client,
                        [to |-> client_addr, data |-> relay_bytes(rv.buf, rv.ret),
                         kind |-> "relay", q |-> cur, re |-> rv.re])
                ELSE to_client
          /\ qlog' = LogRes(
                 [qlog EXCEPT ![cur].outcome = wait_log(rv.ret, wait_outcome(activity, recv_ok)),
                              ![cur].wait = wait_outcome(activity, recv_ok)],
                 cur, <<"free_name">>)
    /\ pc' = "recv"
    /\ UNCHANGED <<g_blocklist, buffer, query_size, client_addr, cur, listen_q,
                   resolver, to_upstream, crashed, tasks, fnvars>>

Init ==
    /\ g_blocklist = BlockTable
    /\ pc = "recv"
    /\ buffer \in {Rep(f, DNS_BUFFER_SIZE) : f \in InitialFill}
    /\ query_size = 0
    /\ client_addr = "none"
    /\ cur = 0
    /\ listen_q = <<>>
    /\ up_q = <<>>
    /\ resolver = {}
    /\ to_client = <<>>
    /\ to_upstream = <<>>
    /\ qlog = <<>>
    /\ crashed = FALSE
    /\ tasks = <<>>
    /\ fn_in = [fn |-> "none"]
    /\ fn_out = [fn |-> "none"]

Next ==
    \/ \E c \in Clients, p \in DispatchPackets : ClientSend(c, p)
    \/ \E q \in resolver : UpstreamReply(q)
    \/ MainRecv
    \/ MainWait

Spec == Init /\ [][Next]_vars

(***************************************************************************)
(* handle_dns_request (src/dns.c): one worker thread per task.             *)
(*                                                                         *)
(* src/ holds no caller of handle_dns_request.  Accept is the acceptor of  *)
(* the design (one task per received datagram of at least header size,     *)
(* handed to its own thread); the worker's steps are the code.             *)
(***************************************************************************)

\* The program's own state, at rest, in the specifications of one function.
ProgramAtRest ==
    /\ pc = "recv"
    /\ buffer = <<>>
    /\ query_size = 0
    /\ client_addr = "none"
    /\ cur = 0
    /\ listen_q = <<>>
    /\ up_q = <<>>
    /\ resolver = {}
    /\ to_client = <<>>
    /\ to_upstream = <<>>
    /\ qlog = <<>>
    /\ crashed = FALSE
    /\ tasks = <<>>

WorkerPackets ==
    { Query(1, FLAG_RD, <<Str(<<"c">>), Str(<<"a">>), Str(<<"b">>)>>),    \* c.a.b : blocked by a.b
      Query(3, FLAG_RD, <<Str(<<"c">>), Str(<<"a">>)>>),                  \* c.a : allowed
      Header(6, FLAG_RD) \o OversizedName \o QTail,                       \* oversized name
      SubSeq(Header(8, FLAG_RD), 1, DNS_HDR_SIZE - 1) }                   \* one byte short

\* The acceptor: receive one datagram, drop it when shorter than the
\* header, otherwise build its task and start its worker.
Accept ==
    /\ ~crashed
    /\ listen_q # <<>>
    /\ \E d \in {Head(listen_q)} :
          /\ listen_q' = Tail(listen_q)
          /\ IF is_junk(Len(d.data))
             THEN /\ qlog' = SetLog(d.id, FALSE, FALSE, FALSE, "dropped_short")
                  /\ UNCHANGED tasks
             ELSE /\ \E fill \in InitialFill :
                       tasks' = Append(tasks,
                          [id |-> d.id,
                           buffer |-> recv_into(Rep(fill, DNS_BUFFER_SIZE), d.data),
                           query_size |-> recv_size(Rep(fill, DNS_BUFFER_SIZE), d.data),
                           client_addr |-> d.from,
                           pc |-> "start", sock |-> "none", sock_q |-> <<>>,
                           null_name |-> FALSE,
                           name_frees |-> 0, task_frees |-> 0])
                  /\ qlog' = LogRes(SetLog(d.id, FALSE, FALSE, FALSE, "task"),
                                     d.id, <<"alloc_task">>)
    /\ UNCHANGED <<g_blocklist, mainvars, up_q, resolver, to_client, to_upstream,
                   crashed, fnvars>>

\* "Final cleanup": free(domain_name); free(task)
cleanup(task) ==
    [task EXCEPT !.pc = "done", !.name_frees = @ + 1, !.task_frees = @ + 1]

\* handle_dns_request from its entry to its return or to the upstream wait
\* (dns.c:209-258).  read_name's result is used unchecked: with NULL the
\* lower-casing loop reads through a null pointer, which kills the process
\* or, where address 0 is readable, goes on with whatever is found there.
WorkerStart(t) ==
    /\ ~crashed
    /\ tasks[t].pc = "start"
    /\ \E task \in {tasks[t]} :
       \E calloc_ok \in BOOLEAN :
       \E r \in read_name_outcomes(task.buffer, DNS_HDR_SIZE, calloc_ok) :
       \E null_read \in IF r.null THEN {"killed", "garbage"} ELSE {"none"} :
       \E domain_name \in {lower_name(r.name)} :
       \E seen \in {LogRead(qlog, task.id, r, domain_name)} :
       \E res \in {<<"use_task">> \o read_name_res(r)} :
       \E use \in {IF r.null THEN <<>> ELSE <<"use_name">>} :
       \E free \in {IF r.null THEN <<>> ELSE <<"free_name">>} :
          IF null_read = "killed"
          THEN /\ crashed' = TRUE
               /\ qlog' = LogRes([seen EXCEPT ![task.id] =
                                     [@ EXCEPT !.decoded = TRUE, !.null_name = TRUE,
                                               !.outcome = "null_deref"]],
                                 task.id, res)
               /\ UNCHANGED <<tasks, to_client, to_upstream, resolver>>
          ELSE IF is_blocked(g_blocklist, domain_name)
          THEN /\ \E buf2 \in {refuse_in_place(task.buffer)} :
                    /\ to_client' = Append(to_client,
                           [to |-> task.client_addr,
                            data |-> SubSeq(buf2, 1, task.query_size),
                            kind |-> "refused", q |-> task.id, re |-> 0])
                    /\ tasks' = [tasks EXCEPT ![t] = cleanup([task EXCEPT !.buffer = buf2])]
               /\ qlog' = LogRes([seen EXCEPT ![task.id] =
                                     [@ EXCEPT !.decoded = TRUE, !.null_name = r.null,
                                               !.classified = TRUE, !.outcome = "refused"]],
                                 task.id,
                                 res \o use \o <<"use_task">> \o free \o <<"free_task">>)
               /\ UNCHANGED <<to_upstream, resolver, crashed>>
          ELSE \E socket_ok \in BOOLEAN :
               IF ~socket_ok
               THEN /\ tasks' = [tasks EXCEPT ![t] = cleanup(task)]
                    /\ qlog' = LogRes([seen EXCEPT ![task.id] =
                                          [@ EXCEPT !.decoded = TRUE, !.null_name = r.null,
                                                    !.classified = TRUE,
                                                    !.outcome = "socket_failed"]],
                                      task.id, res \o use \o free \o <<"free_task">>)
                    /\ UNCHANGED <<to_client, to_upstream, resolver, crashed>>
               ELSE \E sent \in {forward_bytes(task.buffer, task.query_size)} :
                    /\ to_upstream' = Append(to_upstream,
                           [data |-> sent, q |-> task.id, sock |-> t])
                    /\ resolver' = resolver \cup
                           {[id |-> task.id, data |-> sent, sock |-> t]}
                    /\ tasks' = [tasks EXCEPT ![t].pc = "wait", ![t].sock = "open",
                                              ![t].null_name = r.null]
                    /\ qlog' = LogRes([seen EXCEPT ![task.id] =
                                          [@ EXCEPT !.decoded = TRUE, !.null_name = r.null,
                                                    !.classified = TRUE,
                                                    !.outcome = "forwarded"]],
                                      task.id,
                                      res \o use \o <<"open_sock", "use_task">>)
                    /\ UNCHANGED <<to_client, crashed>>
    /\ UNCHANGED <<g_blocklist, mainvars, listen_q, up_q, fnvars>>

\* recv_with_timeout on the worker's own socket returns; the reply is
\* relayed or not, the socket closed, the name and the task freed
\* (dns.c:261-280).
WorkerWait(t) ==
    /\ ~crashed
    /\ tasks[t].pc = "wait"
    /\ \E task \in {tasks[t]} :
       \E activity \in poll_outcomes(task.sock_q) :
       \E recv_ok \in BOOLEAN :
       \E rv \in {recv_with_timeout(task.sock_q, UPSTREAM_BUFFER_SIZE, activity, recv_ok)} :
          /\ to_client' =
                IF has_reply(rv.ret)
                THEN Append(to_client,
                        [to |-> task.client_addr, data |-> relay_bytes(rv.buf, rv.ret),
                         kind |-> "relay", q |-> task.id, re |-> rv.re])
                ELSE to_client
          /\ qlog' = LogRes(
                 [qlog EXCEPT
                     ![task.id].outcome = wait_log(rv.ret, wait_outcome(activity, recv_ok)),
                     ![task.id].wait = wait_outcome(activity, recv_ok)],
                 task.id,
                 (IF has_reply(rv.ret) THEN <<"use_task">>
                  ELSE IF task.null_name THEN <<>> ELSE <<"use_name">>)
                 \o <<"close_sock">>
                 \o (IF task.null_name THEN <<>> ELSE <<"free_name">>)
                 \o <<"free_task">>)
          /\ tasks' = [tasks EXCEPT ![t] = cleanup([task EXCEPT !.sock = "closed",
                                                               !.sock_q = <<>>])]
    /\ UNCHANGED <<g_blocklist, mainvars, listen_q, up_q, resolver, to_upstream,
                   crashed, fnvars>>

NextWorker ==
    \/ \E c \in Clients, p \in WorkerPackets : ClientSend(c, p)
    \/ \E q \in resolver : UpstreamReply(q)
    \/ Accept
    \/ \E t \in 1..Len(tasks) : WorkerStart(t)
    \/ \E t \in 1..Len(tasks) : WorkerWait(t)

InitWorker ==
    /\ ProgramAtRest
    /\ g_blocklist = BlockTable
    /\ fn_in = [fn |-> "none"]
    /\ fn_out = [fn |-> "none"]

SpecWorker == InitWorker /\ [][NextWorker]_vars

(***************************************************************************)
(* is_blocked on its own: every sorted table over BlockEntries of at most  *)
(* MaxTable entries, against every host of at most MaxHostLen characters   *)
(* over HostChars.                                                         *)
(***************************************************************************)
MaxTable == 3
MaxHostLen == 5

HostChars == {46, 97, 98}

BlockEntries ==
    { Str(<<"a">>), Str(<<"b">>), Str(<<"a", "b">>), Str(<<"a", ".", "b">>),
      Str(<<"b", ".", "a">>), Str(<<"a", ".">>), Str(<<".", "a">>),
      Str(<<"b", ".", "a", ".", "b">>) }

\* The entries of S in strcmp order.
RECURSIVE SortSet(_)
SortSet(S) ==
    IF S = {} THEN <<>>
    ELSE LET m == CHOOSE x \in S : \A y \in S : strcmp(x, y) <= 0
         IN  <<m>> \o SortSet(S \ {m})

SortedTables == {SortSet(S) : S \in {T \in SUBSET BlockEntries : Cardinality(T) <= MaxTable}}

Hosts == SeqsUpTo(HostChars, MaxHostLen)

InitBlock ==
    /\ ProgramAtRest
    /\ g_blocklist \in SortedTables
    /\ fn_in \in {[fn |-> "is_blocked", host |-> h] : h \in Hosts}
    /\ fn_out = [fn |-> "none"]

CallIsBlocked ==
    /\ fn_in.fn = "is_blocked"
    /\ fn_out.fn = "none"
    /\ fn_out' = [fn |-> "is_blocked", blocked |-> is_blocked(g_blocklist, fn_in.host)]
    /\ UNCHANGED <<g_blocklist, mainvars, netvars, crashed, tasks, fn_in>>

SpecBlock == InitBlock /\ [][CallIsBlocked]_vars

(***************************************************************************)
(* read_name on its own: every buffer of at most MaxPktLen bytes over      *)
(* NameBytes with every starting offset, and the longer buffers of         *)
(* LongNames, with every content of the memory behind the buffer.          *)
(***************************************************************************)
MaxPktLen == 4

NameBytes == {0, 1, 2, JUMP_HEX_VALUE}

\* n labels of l bytes 'a' each, without the terminating zero.
UniformLabels(l, n) == [i \in 1..(n * (l + 1)) |-> IF (i - 1) % (l + 1) = 0 THEN l ELSE 97]

LongNames ==
    { UniformLabels(63, 1) \o Pointer(0),                 \* one label, repeated through a pointer
      UniformLabels(63, 4) \o <<0>>,                      \* 4 * 64 = 256: one byte too long
      UniformLabels(63, 3) \o UniformLabels(62, 1) \o <<0>>,   \* 255: the longest name
      UniformLabels(63, 3) \o UniformLabels(62, 1) \o Pointer(0),   \* the longest name, then a pointer
      UniformLabels(2, 85) \o <<0>>,                      \* 85 labels, 255 bytes
      UniformLabels(1, 100) \o <<0>>,                     \* exactly MAX_LOOP_COUNT labels
      UniformLabels(1, 101) \o <<0>>,                     \* one label more
      UniformLabels(191, 1) \o <<0>>,                     \* the longest label byte that is no pointer
      UniformLabels(191, 1) \o UniformLabels(63, 1) \o <<0>>,
      UniformLabels(1, 3) \o Pointer(2) }                 \* a cycle through labels

\* Names given by their labels: every list of at most MaxLabels labels of
\* NameLabels, and the long lists of LongLabelLists.
MaxLabels == 3

NameLabels == {Str(<<"a">>), Str(<<"b">>), Str(<<"a", "b">>), Str(<<"A">>)}

LongLabelLists ==
    { Rep(Str(<<"a">>), MAX_LOOP_COUNT - 1),             \* one label less than the step bound
      Rep(Str(<<"a">>), MAX_LOOP_COUNT),                 \* as many labels as the step bound
      Rep(Str(<<"a">>), MAX_LOOP_COUNT + 1),             \* one label more
      <<Rep(97, 63), Rep(97, 63), Rep(97, 63), Rep(97, 62)>>,   \* 254 characters
      <<Rep(97, 63), Rep(97, 63), Rep(97, 63), Rep(97, 63)>> }  \* 255 characters

LabelLists == SeqsUpTo(NameLabels, MaxLabels) \cup LongLabelLists

\* The first k labels of a list, and the others.
FirstLabels(labels, k) == SubSeq(labels, 1, k)
LastLabels(labels, k) == SubSeq(labels, k + 1, Len(labels))

\* A message holding the name in full at offset 0 and then, at offset
\* `reader`, the same name again: in full ("plain"), with the labels after
\* the first `cut` replaced by a pointer to their earlier occurrence
\* ("compressed"), or by a pointer to such a pointer ("chained").
NameMessage(labels, kind, cut) ==
    LET full == QName(labels)
        target == Len(LabelsWire(FirstLabels(labels, cut)))
        head == LabelsWire(FirstLabels(labels, cut))
    IN  [fn |-> "read_name",
         buf |-> IF kind = "plain" THEN full \o full
                 ELSE IF kind = "compressed" THEN full \o head \o Pointer(target)
                 ELSE full \o head \o Pointer(Len(full) + Len(head) + 2)
                           \o Pointer(target),
         reader |-> Len(full), beyond |-> 0, calloc_ok |-> TRUE,
         kind |-> kind, labels |-> labels, cut |-> cut]

NameMessages ==
    {NameMessage(ls, "plain", Len(ls)) : ls \in LabelLists}
    \cup
    UNION {{NameMessage(ls, kind, cut) : kind \in {"compressed", "chained"},
                                        cut \in 0..(Len(ls) - 1)} :
              ls \in SeqsUpTo(NameLabels, MaxLabels) \ {<<>>}}
    \cup
    {NameMessage(ls, kind, cut) : ls \in LongLabelLists,
                                 kind \in {"compressed", "chained"}, cut \in {0, 1}}

NameInputs ==
    {[fn |-> "read_name", buf |-> b, reader |-> r, beyond |-> y, calloc_ok |-> ok,
      kind |-> "raw", labels |-> <<>>, cut |-> 0] :
        b \in SeqsUpTo(NameBytes, MaxPktLen), r \in 0..MaxPktLen,
        y \in BeyondBytes, ok \in BOOLEAN}
    \cup
    {[fn |-> "read_name", buf |-> b, reader |-> 0, beyond |-> y, calloc_ok |-> TRUE,
      kind |-> "long", labels |-> <<>>, cut |-> 0] :
        b \in LongNames, y \in BeyondBytes}
    \cup NameMessages

InitName ==
    /\ ProgramAtRest
    /\ g_blocklist = <<>>
    /\ fn_in \in {x \in NameInputs : x.reader <= Len(x.buf)}
    /\ fn_out = [fn |-> "none"]

CallReadName ==
    /\ fn_in.fn = "read_name"
    /\ fn_out.fn = "none"
    /\ fn_out' = [fn |-> "read_name",
                  r |-> read_name(fn_in.buf, fn_in.beyond, fn_in.reader, fn_in.calloc_ok)]
    /\ UNCHANGED <<g_blocklist, mainvars, netvars, crashed, tasks, fn_in>>

SpecName == InitName /\ [][CallReadName]_vars

(***************************************************************************)
(* Claims about is_blocked (SpecBlock).                                    *)
(***************************************************************************)
InTable(table, name) == \E i \in 1..Len(table) : table[i] = name

HasDot(name) == \E i \in 1..Len(name) : name[i] = 46

\* Some suffix of host that starts right after a '.' and itself still
\* contains a '.' is in the table.
ParentInTable(table, host) ==
    \E k \in 1..Len(host) :
        /\ host[k] = 46
        /\ HasDot(Suffix(host, k + 1))
        /\ InTable(table, Suffix(host, k + 1))

\* C5: for every sorted table and every host, is_blocked(host) is true
\* exactly when host is in the table or a dotted suffix of host that starts
\* after a '.' is in the table; partial labels and bare last labels never
\* match.
C5_IsBlockedIffHostOrParentListed ==
    fn_out.fn = "is_blocked" =>
        (fn_out.blocked <=>
            (InTable(g_blocklist, fn_in.host) \/ ParentInTable(g_blocklist, fn_in.host)))

\* Witness of C5: a host blocked only through a parent domain, by a full
\* table that also holds the bare label "b".
C5_Witness ==
    /\ fn_out.fn = "is_blocked"
    /\ fn_out.blocked
    /\ ~InTable(g_blocklist, fn_in.host)
    /\ Len(g_blocklist) = MaxTable
    /\ InTable(g_blocklist, Str(<<"b">>))

(***************************************************************************)
(* Claims about read_name (SpecName).                                      *)
(***************************************************************************)

\* C7: whenever read_name leaves its loop because the step bound is
\* reached or the name would exceed the maximum length, it returns NULL.
C7_BoundExceededReturnsNull ==
    (fn_out.fn = "read_name" /\ fn_out.r.exit \in {"loop", "count", "overflow"})
        => fn_out.r.null

\* C8: read_name leaves its loop after at most MAX_LOOP_COUNT passes.
C8_AtMostMaxLoopCountPasses ==
    fn_out.fn = "read_name" => fn_out.r.loop_count <= MAX_LOOP_COUNT

\* Witness of C8: a pointer cycle stopped by the step bound.
C8_Witness ==
    /\ fn_out.fn = "read_name"
    /\ fn_out.r.loop_count = MAX_LOOP_COUNT
    /\ fn_out.r.jumped = 1
    /\ fn_out.r.exit = "loop"
    /\ fn_in.beyond = 0
    /\ fn_out.r.max_read < Len(fn_in.buf)

\* C9: every write into name is below DNS_NAME_SIZE; a label that would
\* make the name reach the end of the buffer gives NULL with none of its
\* bytes copied; a returned name is NUL-terminated within 254 bytes.
C9_NameWritesInBounds ==
    fn_out.fn = "read_name" =>
        /\ fn_out.r.max_write < DNS_NAME_SIZE
        /\ fn_out.r.exit = "overflow" =>
              /\ fn_out.r.null
              /\ fn_out.r.name_offset + fn_out.r.bad_len + 1 >= DNS_NAME_SIZE
              /\ fn_out.r.max_write = fn_out.r.name_offset - 1
        /\ ~fn_out.r.null =>
              /\ fn_out.r.name_offset + 1 <= DNS_NAME_SIZE
              /\ fn_out.r.buf_len <= DNS_NAME_SIZE - 2
              /\ Len(fn_out.r.name) <= DNS_NAME_SIZE - 2

\* Witness of C9: a label rejected after earlier labels were copied.
C9_Witness ==
    /\ fn_out.fn = "read_name"
    /\ fn_out.r.exit = "overflow"
    /\ fn_out.r.name_offset > 0
    /\ fn_out.r.name_offset + fn_out.r.bad_len + 1 = DNS_NAME_SIZE

\* A returned name of the greatest length.
C9_LongestName ==
    /\ fn_out.fn = "read_name"
    /\ ~fn_out.r.null
    /\ Len(fn_out.r.name) = DNS_NAME_SIZE - 2

(***************************************************************************)
(* Claims about the dispatcher (Spec: main's loop as src/main.c runs it).  *)
(***************************************************************************)
Sent(log, id) == {i \in 1..Len(log) : log[i].q = id}

\* C1: every upstream datagram relayed to a client answers a query that
\* this client sent; it is never delivered to the client of another query.
C1_ReplyGoesToItsOwnClient ==
    \A i \in 1..Len(to_client) :
        to_client[i].kind = "relay" =>
            qlog[to_client[i].re].from = to_client[i].to

\* A query is in its upstream wait.
UpstreamWaitPending == pc = "wait"

\* C2: while a query waits for its upstream reply, a datagram queued at
\* the listening socket can be received and handled at once.
C2_WaitDoesNotDelayOthers ==
    (UpstreamWaitPending /\ listen_q # <<>>) => ENABLED MainRecv

\* C3: every refused reply has QR = 1 and RCODE exactly 5.
C3_RefusedHasQrAndRcode5 ==
    \A i \in 1..Len(to_client) :
        to_client[i].kind = "refused" =>
            QR(to_client[i].data) = 1 /\ RCODE(to_client[i].data) = RCODE_REFUSED

\* The flag bits outside QR and RCODE.
OtherFlagBits(d) == (WireFlags(d) % DNS_FLAG_QR) \div (DNS_FLAG_RCODE + 1)

\* C4: a refused reply has the length of the received datagram, equals it
\* outside the two flag bytes, and differs in the flags field at most in
\* the QR and RCODE bits.
C4_RefusedKeepsEverythingElse ==
    \A i \in 1..Len(to_client) :
        to_client[i].kind = "refused" =>
            LET reply == to_client[i].data
                query == qlog[to_client[i].q].data
            IN  /\ Len(reply) = Len(query)
                /\ \A j \in 1..Len(query) : j \notin {3, 4} => reply[j] = query[j]
                /\ OtherFlagBits(reply) = OtherFlagBits(query)

\* Witness of C4: a refused reply to a query whose flags had bits set
\* outside QR and RCODE and a non-zero RCODE.
C4_Witness ==
    \E i \in 1..Len(to_client) :
        /\ to_client[i].kind = "refused"
        /\ OtherFlagBits(qlog[to_client[i].q].data) # 0
        /\ RCODE(qlog[to_client[i].q].data) # 0
        /\ to_client[i].data # qlog[to_client[i].q].data

\* C10: a datagram shorter than the header is dropped without read_name
\* or is_blocked being called and without anything being sent for it.
C10_ShortDatagramDropped ==
    \A id \in 1..Len(qlog) :
        (Len(qlog[id].data) < DNS_HDR_SIZE /\ qlog[id].outcome # "queued") =>
            /\ ~qlog[id].decoded
            /\ ~qlog[id].classified
            /\ qlog[id].outcome = "dropped_short"
            /\ Sent(to_client, id) = {}
            /\ Sent(to_upstream, id) = {}

\* Witness of C10: a non-empty short datagram was received and dropped,
\* after a longer one had left a question in the buffer.
C10_Witness ==
    \E id \in 1..Len(qlog) :
        /\ Len(qlog[id].data) = DNS_HDR_SIZE - 1
        /\ qlog[id].outcome = "dropped_short"
        /\ id > 1
        /\ qlog[id - 1].outcome = "refused"

(***************************************************************************)
(* The dispatcher on one queued datagram, for every value of the 16-bit    *)
(* flags field.                                                            *)
(***************************************************************************)
AllFlags == 0..65535

FlagPackets ==
    {Query(9, f, <<Str(<<"c">>), Str(<<"a">>), Str(<<"b">>)>>) : f \in AllFlags}
    \cup {Query(9, f, <<Str(<<"c">>), Str(<<"a">>)>>) : f \in {0, FLAG_RD}}

InitFlags ==
    /\ g_blocklist = BlockTable
    /\ pc = "recv"
    /\ buffer \in {Rep(f, DNS_BUFFER_SIZE) : f \in InitialFill}
    /\ query_size = 0
    /\ client_addr = "none"
    /\ cur = 0
    /\ \E p \in FlagPackets :
          /\ listen_q = <<[id |-> 1, from |-> "c1", data |-> p]>>
          /\ qlog = <<NewLog("c1", p)>>
    /\ up_q = <<>>
    /\ resolver = {}
    /\ to_client = <<>>
    /\ to_upstream = <<>>
    /\ crashed = FALSE
    /\ tasks = <<>>
    /\ fn_in = [fn |-> "none"]
    /\ fn_out = [fn |-> "none"]

NextFlags ==
    \/ \E q \in resolver : UpstreamReply(q)
    \/ MainRecv
    \/ MainWait

SpecFlags == InitFlags /\ [][NextFlags]_vars

(***************************************************************************)
(* Claims about decode failure (SpecWorker: handle_dns_request).           *)
(***************************************************************************)

\* C6: when read_name returns NULL the query is dropped: nothing is read
\* through the missing name, nothing is sent for it, and the process keeps
\* running.
C6_DecodeFailureDropsQuery ==
    /\ ~crashed
    /\ \A id \in 1..Len(qlog) :
          qlog[id].null_name =>
              /\ qlog[id].outcome = "dropped_decode"
              /\ Sent(to_client, id) = {}
              /\ Sent(to_upstream, id) = {}

\* The same drop as main's loop performs it (main.c:144-148).
C6_MainDropsOnNull ==
    \E id \in 1..Len(qlog) :
        /\ qlog[id].null_name
        /\ qlog[id].outcome = "dropped_decode"
        /\ id < Len(qlog)
        /\ qlog[id + 1].outcome = "refused"

(***************************************************************************)
(* Claims about the upstream wait (Spec).                                  *)
(***************************************************************************)

\* C11: when the upstream wait of a forwarded query ends with a timeout or
\* with a poll or receive error, nothing is ever sent to the client for
\* that query, it is recorded as unanswered, and the loop is back at its
\* recvfrom, ready for the next datagram.
C11_NothingSentOnTimeoutOrError ==
    \A id \in 1..Len(qlog) :
        qlog[id].wait \in {"timeout", "error"} =>
            /\ Sent(to_client, id) = {}
            /\ qlog[id].outcome \in {"timeout", "upstream_error"}
            /\ cur = id => pc = "recv"

\* Witness of C11: a query timed out, the next one ended with an error,
\* and both were forwarded.
C11_Witness ==
    /\ Len(qlog) = 2
    /\ qlog[1].wait = "timeout"
    /\ qlog[2].wait = "error"
    /\ Sent(to_upstream, 1) # {}
    /\ Sent(to_upstream, 2) # {}

\* A query is served after an earlier one timed out.
C11_ServedAfterTimeout ==
    /\ Len(qlog) = 2
    /\ qlog[1].wait = "timeout"
    /\ qlog[2].outcome = "refused"

(***************************************************************************)
(* The dispatcher on queries of one client whose names differ in case      *)
(* only, and on a datagram longer than the packet buffer.                  *)
(***************************************************************************)

\* An allowed query followed by bytes that make it one byte longer than
\* the packet buffer.
LongQuery ==
    LET q == Query(5, FLAG_RD, <<Str(<<"c">>), Str(<<"a">>)>>)
    IN  q \o Rep(7, DNS_BUFFER_SIZE + 1 - Len(q))

CasePackets ==
    { Query(1, FLAG_RD, <<Str(<<"c">>), Str(<<"a">>), Str(<<"b">>)>>),    \* c.a.b : blocked by a.b
      Query(2, FLAG_RD, <<Str(<<"C">>), Str(<<"a">>), Str(<<"B">>)>>),    \* C.a.B
      Query(3, FLAG_RD, <<Str(<<"c">>), Str(<<"a">>)>>),                  \* c.a : allowed
      Query(4, FLAG_RD, <<Str(<<"C">>), Str(<<"A">>)>>),                  \* C.A
      LongQuery }

NextCase ==
    \/ \E p \in CasePackets : ClientSend("c1", p)
    \/ \E q \in resolver : UpstreamReply(q)
    \/ MainRecv
    \/ MainWait

SpecCase == Init /\ [][NextCase]_vars

\* What recvfrom delivers of a datagram sent to the listening socket.
Received(d) == SubSeq(d, 1, Min(Len(d), DNS_BUFFER_SIZE))

\* C12: the datagram sent upstream for a query is, byte for byte and in
\* length, the datagram received from the client; a datagram relayed to a
\* client is, byte for byte and in length, the upstream datagram received.
C12_ForwardedAndRelayedVerbatim ==
    /\ \A i \in 1..Len(to_upstream) :
           to_upstream[i].data = Received(qlog[to_upstream[i].q].data)
    /\ \A i \in 1..Len(to_client) :
           to_client[i].kind = "relay" =>
               /\ to_client[i].re > 0
               /\ to_client[i].data =
                      upstream_answer(Received(qlog[to_client[i].re].data))

\* Witness of C12: a query with upper-case letters in its name was
\* forwarded and its answer relayed, and the over-long datagram was
\* forwarded too.
C12_Witness ==
    /\ Len(to_upstream) = 2
    /\ Len(qlog[to_upstream[1].q].data) > DNS_BUFFER_SIZE
    /\ \E i \in 1..Len(to_client) :
           /\ to_client[i].kind = "relay"
           /\ to_client[i].re = to_client[i].q
           /\ qlog[to_client[i].q].data[DNS_HDR_SIZE + 2] = ASCII["C"]

\* Two bytes that are equal or the two cases of one ASCII letter.
SameLetter(x, y) ==
    \/ x = y
    \/ x \in 65..90 /\ y = x + 32
    \/ y \in 65..90 /\ x = y + 32

\* Two datagrams whose questions differ at most in the case of letters.
SameQuestionIgnoringCase(d1, d2) ==
    /\ Len(d1) = Len(d2)
    /\ Len(d1) > DNS_HDR_SIZE
    /\ \A j \in (DNS_HDR_SIZE + 1)..Len(d1) : SameLetter(d1[j], d2[j])

\* The bytes of a datagram after the header.
Question(d) == SubSeq(d, DNS_HDR_SIZE + 1, Len(d))

\* C17: two queries whose names were decoded and classified and differ
\* only in the case of letters are both blocked or both forwarded; and the
\* question is sent on, upstream or back to the client, in the case it was
\* received in.
C17_ClassifiedRegardlessOfCase ==
    /\ \A i, j \in 1..Len(qlog) :
           (/\ qlog[i].classified /\ ~qlog[i].null_name
            /\ qlog[j].classified /\ ~qlog[j].null_name
            /\ SameQuestionIgnoringCase(qlog[i].data, qlog[j].data))
           => ((qlog[i].outcome = "refused") <=> (qlog[j].outcome = "refused"))
    /\ \A k \in 1..Len(to_upstream) :
           Question(to_upstream[k].data) = Question(Received(qlog[to_upstream[k].q].data))
    /\ \A k \in 1..Len(to_client) :
           to_client[k].kind = "refused" =>
               Question(to_client[k].data) = Question(Received(qlog[to_client[k].q].data))

\* Witness of C17: c.a.b and C.a.B were both refused, the second reply
\* still in upper case.
C17_Witness ==
    /\ Len(to_client) = 2
    /\ to_client[1].kind = "refused"
    /\ to_client[2].kind = "refused"
    /\ qlog[1].data # qlog[2].data
    /\ SameQuestionIgnoringCase(qlog[1].data, qlog[2].data)
    /\ to_client[2].data[DNS_HDR_SIZE + 2] = ASCII["C"]
    /\ qlog[2].name = Str(<<"c", ".", "a", ".", "b">>)

\* The same with forwarding: c.a and C.A were both forwarded.
C17_BothForwarded ==
    /\ Len(to_upstream) = 2
    /\ qlog[1].data # qlog[2].data
    /\ SameQuestionIgnoringCase(qlog[1].data, qlog[2].data)
    /\ to_upstream[2].data[DNS_HDR_SIZE + 2] = ASCII["C"]

(***************************************************************************)
(* Claims about the names read_name returns (SpecName).                    *)
(***************************************************************************)

\* The labels joined by dots.
RECURSIVE DotJoin(_)
DotJoin(labels) ==
    IF Len(labels) = 0 THEN <<>>
    ELSE IF Len(labels) = 1 THEN labels[1]
    ELSE LET h == Len(labels) \div 2
         IN  DotJoin(SubSeq(labels, 1, h)) \o <<46>> \o DotJoin(SubSeq(labels, h + 1, Len(labels)))

\* The call decodes a name given by its labels.
NamedCall == fn_out.fn = "read_name" /\ fn_in.kind \in {"plain", "compressed", "chained"}

\* The pointers read_name follows in a message.
PointersIn(kind) == IF kind = "plain" THEN 0 ELSE IF kind = "compressed" THEN 1 ELSE 2

\* The name, with the dot after each label and the terminator, is at most
\* DNS_NAME_SIZE - 1 bytes: what read_name accepts.
FitsNameBuffer(labels) == Len(DotJoin(labels)) <= DNS_NAME_SIZE - 2

\* C13 as stated: for every name of at most MAX_LOOP_COUNT labels that
\* fits the name buffer, read_name returns exactly the labels joined by
\* dots, whether the name is encoded in full or with a suffix replaced by
\* a pointer to an earlier occurrence.
C13_RoundTripUpTo100Labels ==
    (/\ NamedCall
     /\ fn_in.kind \in {"plain", "compressed"}
     /\ Len(fn_in.labels) <= MAX_LOOP_COUNT
     /\ FitsNameBuffer(fn_in.labels))
    => (~fn_out.r.null /\ fn_out.r.name = DotJoin(fn_in.labels))

\* C13 as amended: the same for every name whose labels and pointers
\* together number at most MAX_LOOP_COUNT.
C13_RoundTripWithinStepBound ==
    (/\ NamedCall
     /\ Len(fn_in.labels) + PointersIn(fn_in.kind) <= MAX_LOOP_COUNT
     /\ FitsNameBuffer(fn_in.labels))
    => (~fn_out.r.null /\ fn_out.r.name = DotJoin(fn_in.labels))

\* Witness of C13: a name of 99 labels behind a pointer, read in exactly
\* MAX_LOOP_COUNT passes.
C13_Witness ==
    /\ NamedCall
    /\ fn_in.kind = "compressed"
    /\ fn_in.cut = 0
    /\ Len(fn_in.labels) + 1 = MAX_LOOP_COUNT
    /\ fn_out.r.loop_count = MAX_LOOP_COUNT
    /\ fn_out.r.name = DotJoin(fn_in.labels)

\* A three-label name with an upper-case label, its last two labels
\* behind a chain of two pointers, and the empty name.
C13_ShortNames ==
    \/ /\ NamedCall
       /\ fn_in.kind = "chained"
       /\ fn_in.cut = 1
       /\ fn_in.labels = <<Str(<<"A">>), Str(<<"a", "b">>), Str(<<"b">>)>>
       /\ fn_out.r.name = Str(<<"A", ".", "a", "b", ".", "b">>)
    \/ /\ NamedCall
       /\ fn_in.labels = <<>>
       /\ fn_out.r.name = <<>>
       /\ ~fn_out.r.null

\* The bytes a name occupies at offset `at`: its labels up to and
\* including the terminating zero or the first pointer.
RECURSIVE NameSpan(_, _, _)
NameSpan(buf, beyond, at) ==
    LET b == Mem(buf, beyond, at)
    IN  IF b = 0 THEN 1
        ELSE IF b >= JUMP_HEX_VALUE THEN 2
        ELSE b + 1 + NameSpan(buf, beyond, at + b + 1)

\* The same, from the labels a message was built from.
SpanOf(in) ==
    IF in.kind = "plain" THEN Len(LabelsWire(in.labels)) + 1
    ELSE Len(LabelsWire(FirstLabels(in.labels, in.cut))) + 2

\* C18: when read_name returns a name it read to its terminating zero,
\* *count is the number of bytes the name occupies at the caller's offset:
\* the labels and the zero byte when there is no pointer, the labels before
\* the first pointer and the 2 bytes of that pointer otherwise.
C18_CountIsBytesAtCallersOffset ==
    (fn_out.fn = "read_name" /\ ~fn_out.r.null /\ fn_out.r.exit = "end") =>
        /\ fn_in.kind = "raw" =>
              fn_out.r.count = NameSpan(fn_in.buf, fn_in.beyond, fn_in.reader)
        /\ fn_in.kind \in {"plain", "compressed", "chained"} =>
              fn_out.r.count = SpanOf(fn_in)
        /\ fn_out.r.jumped = 0 => fn_out.r.count = fn_out.r.name_offset + 1

\* Witness of C18: two labels, then a pointer to a pointer to the last
\* label: *count is the length of the two labels plus 2.
C18_Witness ==
    /\ NamedCall
    /\ fn_in.kind = "chained"
    /\ fn_in.cut = 2
    /\ Len(fn_in.labels) = 3
    /\ fn_out.r.exit = "end"
    /\ fn_out.r.count = Len(fn_in.labels[1]) + Len(fn_in.labels[2]) + 4
    /\ fn_out.r.count < fn_out.r.name_offset

\* A pointer as the first thing read: *count is 2.
C18_PointerFirst ==
    /\ NamedCall
    /\ fn_in.cut = 0
    /\ fn_in.kind = "compressed"
    /\ fn_in.labels # <<>>
    /\ fn_out.r.exit = "end"
    /\ fn_out.r.count = 2

(***************************************************************************)
(* recv_with_timeout on its own: a caller's successive calls, each on a    *)
(* socket with no datagram or one datagram queued.                         *)
(***************************************************************************)
MaxCalls == 2

\* Datagrams a peer can send: UDP allows an empty one.
RecvDatagrams == {<<>>, <<7>>, <<7, 8>>}

RecvQueues == {<<>>} \cup {<<[data |-> d, re |-> 1]>> : d \in RecvDatagrams}

RecvInputs ==
    UNION {{[fn |-> "recv_with_timeout", q |-> q, activity |-> a, recv_ok |-> ok] :
               a \in poll_outcomes(q), ok \in BOOLEAN} : q \in RecvQueues}

InitRecv ==
    /\ ProgramAtRest
    /\ g_blocklist = <<>>
    /\ fn_in \in RecvInputs
    /\ fn_out = [fn |-> "recv_with_timeout", calls |-> <<>>]

CallRecvWithTimeout ==
    /\ fn_in.fn = "recv_with_timeout"
    /\ Len(fn_out.calls) < MaxCalls
    /\ fn_out' = [fn_out EXCEPT !.calls =
                     Append(@, [in |-> fn_in,
                                ret |-> recv_with_timeout(fn_in.q, UPSTREAM_BUFFER_SIZE,
                                                          fn_in.activity, fn_in.recv_ok).ret])]
    /\ fn_in' \in RecvInputs
    /\ UNCHANGED <<g_blocklist, mainvars, netvars, crashed, tasks>>

SpecRecv == InitRecv /\ [][CallRecvWithTimeout]_vars

\* What happened in a call: no data within timeout_ms, an I/O error, or a
\* datagram received.
Happened(in) == wait_outcome(in.activity, in.recv_ok)

\* C14: the value recv_with_timeout returns tells the caller which of the
\* three happened: two calls in which different things happened never
\* return the same value.
C14_OutcomesToldApart ==
    fn_out.fn = "recv_with_timeout" =>
        \A i, j \in 1..Len(fn_out.calls) :
            Happened(fn_out.calls[i].in) # Happened(fn_out.calls[j].in)
                => fn_out.calls[i].ret # fn_out.calls[j].ret

\* An error and a timeout, at least, return different values.
C14_ErrorAndTimeoutDiffer ==
    /\ fn_out.fn = "recv_with_timeout"
    /\ Len(fn_out.calls) = 2
    /\ Happened(fn_out.calls[1].in) = "error"
    /\ Happened(fn_out.calls[2].in) = "timeout"
    /\ fn_out.calls[1].ret # fn_out.calls[2].ret

(***************************************************************************)
(* Claims about a query's resources (SpecWorker: handle_dns_request).      *)
(***************************************************************************)

\* How often event e occurs in a sequence of resource events.
Count(ev, e) == Cardinality({k \in 1..Len(ev) : ev[k] = e})

\* Nothing happens to a resource after its release.
NothingAfter(ev, release, later) ==
    \A k \in 1..Len(ev) :
        ev[k] = release => \A m \in (k + 1)..Len(ev) : ev[m] \notin later

\* The processing of datagram id is over.
Ended(id) == qlog[id].outcome \notin {"queued", "task", "forwarded"}

\* C15: on every exit path of a query's processing each resource acquired
\* for it is released exactly once: the upstream socket opened is closed,
\* the decoded name and the task are freed once, and none is used or
\* released again after its release.
C15_ResourcesReleasedOnce ==
    \A id \in 1..Len(qlog) :
        LET ev == qlog[id].res
        IN  /\ NothingAfter(ev, "free_name", {"use_name", "free_name"})
            /\ NothingAfter(ev, "free_task", {"use_task", "free_task"})
            /\ NothingAfter(ev, "close_sock", {"close_sock"})
            /\ Ended(id) =>
                  /\ Count(ev, "free_name") = Count(ev, "alloc_name")
                  /\ Count(ev, "free_task") = Count(ev, "alloc_task")
                  /\ Count(ev, "close_sock") = Count(ev, "open_sock")

\* The same on the paths on which read_name returned a name.
C15_ReleasedOnceWhenNameDecoded ==
    \A id \in 1..Len(qlog) :
        LET ev == qlog[id].res
        IN  /\ NothingAfter(ev, "free_name", {"use_name", "free_name"})
            /\ NothingAfter(ev, "free_task", {"use_task", "free_task"})
            /\ NothingAfter(ev, "close_sock", {"close_sock"})
            /\ (Ended(id) /\ qlog[id].outcome # "null_deref") =>
                  /\ Count(ev, "free_name") = Count(ev, "alloc_name")
                  /\ Count(ev, "free_task") = Count(ev, "alloc_task")
                  /\ Count(ev, "close_sock") = Count(ev, "open_sock")

(***************************************************************************)
(* Progress.  Every thread that can take a step is eventually scheduled:   *)
(* the acceptor and each worker (SpecWorkerLive), main's loop (SpecLive).  *)
(* The resolver is under no obligation to answer.                          *)
(***************************************************************************)
SpecWorkerLive ==
    /\ SpecWorker
    /\ WF_vars(Accept)
    /\ WF_vars(\E t \in 1..Len(tasks) : WorkerStart(t))
    /\ WF_vars(\E t \in 1..Len(tasks) : WorkerWait(t))

SpecLive == Spec /\ WF_vars(MainRecv) /\ WF_vars(MainWait)

\* The final states of a datagram: refused reply sent, upstream reply
\* relayed, or dropped (too short, not decodable, or left unanswered).
FinalOutcomes ==
    {"refused", "relayed", "dropped_short", "dropped_decode", "timeout",
     "upstream_error", "socket_failed"}

\* C16: every datagram handed to the dispatcher eventually reaches a final
\* state, whether or not the resolver answers.
C16_EveryDatagramReachesFinalState ==
    \A id \in 1..MaxQueries :
        (Len(qlog) >= id) ~> (Len(qlog) >= id /\ qlog[id].outcome \in FinalOutcomes)

\* The upstream wait itself always ends: a datagram that is being waited
\* for is eventually in a final state.
C16_WaitAlwaysEnds ==
    \A id \in 1..MaxQueries :
        (Len(qlog) >= id /\ qlog[id].outcome = "forwarded")
            ~> (Len(qlog) >= id /\ qlog[id].outcome \in FinalOutcomes)

(***************************************************************************)
(* Claims about what read_name reads of the packet buffer (Spec).          *)
(***************************************************************************)

\* C19: for every datagram of at least header size, every byte read_name
\* reads lies below the number of bytes received for that datagram, and so
\* inside the packet buffer.
C19_ReadsWithinReceivedBytes ==
    \A id \in 1..Len(qlog) :
        qlog[id].decoded =>
            /\ qlog[id].max_read < Len(Received(qlog[id].data))
            /\ qlog[id].max_read < DNS_BUFFER_SIZE

\* read_name alone: every byte read lies inside the buffer it is given.
C19_ReadsInsideBuffer ==
    fn_out.fn = "read_name" => fn_out.r.max_read < Len(fn_in.buf)

(***************************************************************************)
(* The dispatcher on three datagrams queued by one client: a bare header,  *)
(* a query for a blocked name and a query for an allowed name, in every    *)
(* order and with repetitions.                                             *)
(***************************************************************************)
StalePackets ==
    { Header(7, FLAG_RD),                                                 \* header only
      Query(1, FLAG_RD, <<Str(<<"c">>), Str(<<"a">>), Str(<<"b">>)>>),    \* c.a.b : blocked by a.b
      Query(3, FLAG_RD, <<Str(<<"c">>), Str(<<"a">>)>>) }                 \* c.a : allowed

StaleBursts == {<<p1, p2, p3>> : p1 \in StalePackets, p2 \in StalePackets, p3 \in StalePackets}

InitStale ==
    /\ g_blocklist = BlockTable
    /\ pc = "recv"
    /\ buffer \in {Rep(f, DNS_BUFFER_SIZE) : f \in InitialFill}
    /\ query_size = 0
    /\ client_addr = "none"
    /\ cur = 0
    /\ \E burst \in StaleBursts :
          /\ listen_q = [i \in 1..Len(burst) |-> [id |-> i, from |-> "c1", data |-> burst[i]]]
          /\ qlog = [i \in 1..Len(burst) |-> NewLog("c1", burst[i])]
    /\ up_q = <<>>
    /\ resolver = {}
    /\ to_client = <<>>
    /\ to_upstream = <<>>
    /\ crashed = FALSE
    /\ tasks = <<>>
    /\ fn_in = [fn |-> "none"]
    /\ fn_out = [fn |-> "none"]

SpecStale == InitStale /\ [][NextFlags]_vars

\* What was decided about a datagram.
Classification(rec) ==
    IF rec.outcome \in {"dropped_short", "dropped_decode"} THEN "dropped"
    ELSE IF rec.outcome = "refused" THEN "blocked"
    ELSE "forwarded"

\* C20: two datagrams with the same bytes are classified alike and decoded
\* to the same name, whatever was received before them (a decode that
\* failed for lack of memory aside).
C20_SameBytesSameClassification ==
    \A i, j \in 1..Len(qlog) :
        (/\ qlog[i].data = qlog[j].data
         /\ qlog[i].outcome # "queued" /\ qlog[j].outcome # "queued"
         /\ qlog[i].exit # "nomem" /\ qlog[j].exit # "nomem")
        => /\ Classification(qlog[i]) = Classification(qlog[j])
           /\ qlog[i].name = qlog[j].name

\* Datagrams that hold their whole question are classified alike.
C20_HoldsForCompleteQuestions ==
    \A i, j \in 1..Len(qlog) :
        (/\ qlog[i].data = qlog[j].data
         /\ qlog[i].outcome # "queued" /\ qlog[j].outcome # "queued"
         /\ qlog[i].exit # "nomem" /\ qlog[j].exit # "nomem"
         /\ Len(qlog[i].data) > DNS_HDR_SIZE)
        => /\ Classification(qlog[i]) = Classification(qlog[j])
           /\ qlog[i].name = qlog[j].name


(***************************************************************************)
(* Datagrams sent per received datagram.                                   *)
(***************************************************************************)

\* The datagrams sent to the resolver for datagram id.
SentUpstream(id) == {i \in 1..Len(to_upstream) : to_upstream[i].q = id}

\* The outcomes of a datagram that was forwarded.
ForwardedOutcomes == {"forwarded", "relayed", "timeout", "upstream_error"}

\* At most one datagram is sent for datagram id, and to its sender.
AtMostOneToSender(id) ==
    /\ Cardinality(Sent(to_client, id)) <= 1
    /\ \A i \in Sent(to_client, id) : to_client[i].to = qlog[id].from

\* A blocked datagram gets exactly one datagram, the refusal, and nothing
\* is sent to the resolver for it.
BlockedGetsOne(id) ==
    qlog[id].outcome = "refused" =>
        /\ Cardinality(Sent(to_client, id)) = 1
        /\ \A i \in Sent(to_client, id) : to_client[i].kind = "refused"
        /\ SentUpstream(id) = {}

\* A dropped datagram gets nothing.
DroppedGetsNone(id) ==
    Classification(qlog[id]) = "dropped" => Sent(to_client, id) = {}

\* C21: for every received datagram at most one datagram is sent, to the
\* client that sent it: exactly one when the name is blocked, none when the
\* datagram is dropped, and when it is forwarded only a relay made after an
\* upstream datagram for that very query was received; nothing is sent to
\* the resolver for a blocked query.
C21_AtMostOneReplyPerDatagram ==
    \A id \in 1..Len(qlog) :
        /\ AtMostOneToSender(id)
        /\ BlockedGetsOne(id)
        /\ DroppedGetsNone(id)
        /\ qlog[id].outcome \in ForwardedOutcomes =>
               \A i \in Sent(to_client, id) :
                   /\ to_client[i].kind = "relay"
                   /\ qlog[id].wait = "data"
                   /\ to_client[i].re = id

\* The same, asking of a forwarded datagram only that some upstream
\* datagram was received during its wait.
C21_CountsAndOrder ==
    \A id \in 1..Len(qlog) :
        /\ AtMostOneToSender(id)
        /\ BlockedGetsOne(id)
        /\ DroppedGetsNone(id)
        /\ qlog[id].outcome \in ForwardedOutcomes =>
               \A i \in Sent(to_client, id) :
                   /\ to_client[i].kind = "relay"
                   /\ qlog[id].wait = "data"

\* Both a refused and a relayed datagram have been processed.
C21_EachKindSeen ==
    /\ \E id \in 1..Len(qlog) : qlog[id].outcome = "refused"
    /\ \E id \in 1..Len(qlog) : qlog[id].outcome = "relayed"

\* A forwarded datagram was answered with the reply to another query.
C21_RelayOfAnotherQuery ==
    \E i \in 1..Len(to_client) :
        /\ to_client[i].kind = "relay"
        /\ to_client[i].re # to_client[i].q

=============================================================================
